---------------------------- MODULE Spec2Model ----------------------------
(***************************************************************************)
(* Market Stress Explorer: the scoring / threshold / regime pipeline and   *)
(* the Streamlit session that drives it.                                   *)
(*                                                                         *)
(* Numbers.  A pandas float64 cell is modelled as a record: NaN, +inf,     *)
(* -inf, or a finite number held in fixed point, Scale units to 1.0.       *)
(* Arithmetic follows IEEE-754 on the special values (x/0, inf-inf, NaN    *)
(* propagation, comparisons with NaN are false).  Finite results are       *)
(* rounded to the grid; the standard deviation is rounded up, so that it   *)
(* is 0 exactly when the variance is 0, as over the reals.                 *)
(*                                                                         *)
(* Tables.  A DataFrame is [idx |-> <<dates>>, cols |-> [name |-> <<..>>]] *)
(* with every column as long as idx.                                       *)
(***************************************************************************)
EXTENDS Integers, Sequences, FiniteSets, TLC

\* fixed-point units per 1.0
Scale == 10 * 10

NaN == [k |-> "nan", v |-> 0]
PosInf == [k |-> "inf", v |-> 1]
NegInf == [k |-> "inf", v |-> -1]
Num(x) == [k |-> "num", v |-> x]

IsNum(c) == c.k = "num"
IsInf(c) == c.k = "inf"
\* pandas isna(): NaN only, an infinity is a value
isna(c) == c.k = "nan"

Sign(x) == IF x > 0 THEN 1 ELSE IF x < 0 THEN -1 ELSE 0
Abs(x) == IF x < 0 THEN -x ELSE x
Inf(sgn) == IF sgn > 0 THEN PosInf ELSE NegInf

FNeg(a) == IF isna(a) THEN NaN ELSE [a EXCEPT !.v = -a.v]

FAdd(a, b) ==
  IF isna(a) \/ isna(b) THEN NaN
  ELSE IF IsInf(a) /\ IsInf(b) THEN (IF a.v = b.v THEN a ELSE NaN)
  ELSE IF IsInf(a) THEN a
  ELSE IF IsInf(b) THEN b
  ELSE Num(a.v + b.v)

FSub(a, b) == FAdd(a, FNeg(b))

\* a * (n/d) for a literal n/d of the source (a weight, a slider's k)
FTimes(n, d, a) ==
  IF isna(a) THEN NaN
  ELSE IF IsInf(a) THEN (IF n = 0 THEN NaN ELSE Inf(Sign(n) * a.v))
  ELSE Num((n * a.v) \div d)

FDiv(a, b) ==
  IF isna(a) \/ isna(b) THEN NaN
  ELSE IF IsInf(a) THEN (IF IsInf(b) THEN NaN
                         ELSE Inf(a.v * (IF b.v < 0 THEN -1 ELSE 1)))
  ELSE IF IsInf(b) THEN Num(0)
  ELSE IF b.v = 0 THEN (IF a.v = 0 THEN NaN ELSE Inf(Sign(a.v)))
  ELSE Num((a.v * Scale) \div b.v)

\* a > b as a float comparison: False when either side is NaN
FGt(a, b) ==
  IF isna(a) \/ isna(b) THEN FALSE
  ELSE IF IsInf(a) THEN (a.v = 1 /\ b # PosInf)
  ELSE IF IsInf(b) THEN b.v = -1
  ELSE a.v > b.v

FLe(a, b) == ~isna(a) /\ ~isna(b) /\ ~FGt(a, b)

\* the explicit sequence <<F(lo), ..., F(hi)>>, built by halves
RECURSIVE BuildRange(_, _, _)
BuildRange(F(_), lo, hi) ==
  IF lo > hi THEN << >>
  ELSE IF lo = hi THEN << F(lo) >>
  ELSE BuildRange(F, lo, (lo + hi) \div 2) \o BuildRange(F, (lo + hi) \div 2 + 1, hi)

Build(F(_), n) == BuildRange(F, 1, n)

\* a value computed once and named: F applied to it
With(v, F(_)) == F(v)

\* the elements of s[lo..hi] that pass Test, in order
RECURSIVE SelectRange(_, _, _, _)
SelectRange(s, Test(_), lo, hi) ==
  IF lo > hi THEN << >>
  ELSE IF lo = hi THEN (IF Test(s[lo]) THEN << s[lo] >> ELSE << >>)
  ELSE SelectRange(s, Test, lo, (lo + hi) \div 2) \o SelectRange(s, Test, (lo + hi) \div 2 + 1, hi)

Select(s, Test(_)) == SelectRange(s, Test, 1, Len(s))

RECURSIVE SumRange(_, _, _)
SumRange(s, lo, hi) ==
  IF lo > hi THEN 0
  ELSE IF lo = hi THEN s[lo]
  ELSE SumRange(s, lo, (lo + hi) \div 2) + SumRange(s, (lo + hi) \div 2 + 1, hi)

SumSeq(s) == SumRange(s, 1, Len(s))

\* smallest r >= 0 with r * r * den >= num  (num >= 0, den > 0)
RECURSIVE SqrtHi(_, _, _)
SqrtHi(num, den, h) == IF h * h * den >= num THEN h ELSE SqrtHi(num, den, 2 * h)

RECURSIVE SqrtBisect(_, _, _, _)
SqrtBisect(num, den, lo, hi) ==
  IF hi - lo <= 1 THEN hi
  ELSE LET mid == (lo + hi) \div 2
       IN IF mid * mid * den >= num THEN SqrtBisect(num, den, lo, mid)
          ELSE SqrtBisect(num, den, mid, hi)

SqrtUp(num, den) == IF num = 0 THEN 0 ELSE SqrtBisect(num, den, 0, SqrtHi(num, den, 1))

(***************************************************************************)
(* Python values: Optional[str] as characters, results and exceptions      *)
(***************************************************************************)
PyNone == [none |-> TRUE, s |-> << >>]
Str(chars) == [none |-> FALSE, s |-> chars]

Whitespace == {" ", "\t", "\n"}

LowerChar(c) ==
  CASE c = "S" -> "s" [] c = "T" -> "t" [] c = "D" -> "d"
    [] c = "P" -> "p" [] OTHER -> c

RECURSIVE LStrip(_)
LStrip(s) == IF s # << >> /\ Head(s) \in Whitespace THEN LStrip(Tail(s)) ELSE s

RECURSIVE RStrip(_)
RStrip(s) ==
  IF s # << >> /\ s[Len(s)] \in Whitespace THEN RStrip(SubSeq(s, 1, Len(s) - 1)) ELSE s

\* (x or "")
OrEmpty(x) == IF x.none THEN << >> ELSE x.s
lower(s) == Build(LAMBDA i : LowerChar(s[i]), Len(s))
strip(s) == RStrip(LStrip(s))

Ok(v) == [raised |-> FALSE, val |-> v]

(***************************************************************************)
(* pandas Series                                                           *)
(***************************************************************************)
\* s.replace([np.inf, -np.inf], np.nan)
replace_inf(s) == Build(LAMBDA i : IF IsInf(s[i]) THEN NaN ELSE s[i], Len(s))

dropna(s) == Select(s, LAMBDA c : ~isna(c))

RECURSIVE FSumRange(_, _, _)
FSumRange(s, lo, hi) ==
  IF lo > hi THEN Num(0)
  ELSE IF lo = hi THEN s[lo]
  ELSE FAdd(FSumRange(s, lo, (lo + hi) \div 2), FSumRange(s, (lo + hi) \div 2 + 1, hi))

FSum(s) == FSumRange(s, 1, Len(s))

\* Series.mean(skipna=True): NaN for no usable value
mean(s) ==
  With(dropna(s), LAMBDA u :
    IF u = << >> THEN NaN
    ELSE With(FSum(u), LAMBDA t : IF IsNum(t) THEN Num(t.v \div Len(u)) ELSE t))

\* Series.std(skipna=True), ddof = 1: NaN for fewer than two usable values
std(s) ==
  With(dropna(s), LAMBDA u :
    With(mean(s), LAMBDA mu :
      IF Len(u) < 2 \/ ~IsNum(mu) THEN NaN
      ELSE Num(SqrtUp(SumSeq(Build(LAMBDA i : (u[i].v - mu.v) * (u[i].v - mu.v), Len(u))),
                      Len(u) - 1))))

\* ascending sort of integers: each value goes to its rank
SortAsc(v) ==
  LET n == Len(v)
      rank == Build(LAMBDA i : 1 + Cardinality({j \in 1..n : v[j] < v[i] \/ (v[j] = v[i] /\ j < i)}), n)
  IN Build(LAMBDA k : v[CHOOSE i \in 1..n : rank[i] = k], n)

\* Series.quantile(p), linear interpolation; p in percent, s finite, non-empty
quantile(s, p) ==
  With(SortAsc(Build(LAMBDA i : s[i].v, Len(s))), LAMBDA v :
    LET n == Len(v)
        pos == p * (n - 1)
        lo == pos \div 100
        hi == IF lo + 1 > n - 1 THEN n - 1 ELSE lo + 1
    IN Num(v[lo + 1] + ((v[hi + 1] - v[lo + 1]) * (pos % 100)) \div 100))

(***************************************************************************)
(* pandas DataFrame                                                        *)
(***************************************************************************)
HasCol(t, c) == c \in DOMAIN t.cols
NRows(t) == Len(t.idx)

\* out[c] = s : a new column, or an existing one overwritten
SetCol(t, c, s) ==
  [t EXCEPT !.cols = [x \in (DOMAIN t.cols) \cup {c} |-> IF x = c THEN s ELSE t.cols[x]]]

\* the rows at positions pos, in that order, restricted to the columns cs
TakeRows(t, pos, cs) ==
  [idx |-> Build(LAMBDA i : t.idx[pos[i]], Len(pos)),
   cols |-> [c \in cs |-> Build(LAMBDA i : t.cols[c][pos[i]], Len(pos))]]

\* positions 1..n as a sequence
Positions(n) == Build(LAMBDA i : i, n)

(***************************************************************************)
(* src/scoring.py                                                          *)
(***************************************************************************)
\* a zscore without the guard on sigma
zscore_unguarded(series) ==
  With(replace_inf(series), LAMBDA s :
    With(mean(s), LAMBDA mu :
      With(std(s), LAMBDA sigma :
        Build(LAMBDA i : FDiv(FSub(s[i], mu), sigma), Len(s)))))

zscore(series) ==
  With(replace_inf(series), LAMBDA s :
    With(mean(s), LAMBDA mu :
      With(std(s), LAMBDA sigma :
        IF isna(sigma) \/ sigma = Num(0)
        THEN Build(LAMBDA i : Num(0), Len(series))
        ELSE Build(LAMBDA i : FDiv(FSub(s[i], mu), sigma), Len(s)))))

needed == << "volatility", "vol_shock", "liq_proxy" >>

\* the whole list of needed columns reported as soon as one is absent
missing_reported_whole(out) ==
  IF \E i \in 1..Len(needed) : ~HasCol(out, needed[i]) THEN needed ELSE << >>

missing_columns(out) == Select(needed, LAMBDA c : ~HasCol(out, c))

\* weights in tenths (0.4, 0.4, 0.2 by default); written: the columns assigned
\* to the copy before the function left
compute_stress_score(frame, w_vol, w_volshock, w_liq) ==
  With(missing_columns(frame), LAMBDA missing :
    IF missing # << >>
    THEN [raised |-> TRUE, type |-> "ValueError",
          msg |-> [text |-> "Missing columns required for stress score: ", list |-> missing],
          written |-> {}]
    ELSE
      With(zscore(frame.cols["volatility"]), LAMBDA vol_z :
        With(zscore(frame.cols["vol_shock"]), LAMBDA volshock_z :
          With(zscore(frame.cols["liq_proxy"]), LAMBDA liq_z :
            [raised |-> FALSE,
             val |-> SetCol(SetCol(SetCol(SetCol(frame, "vol_z", vol_z),
                                          "volshock_z", volshock_z), "liq_z", liq_z),
                            "stress_score",
                            Build(LAMBDA i : FAdd(FAdd(FTimes(w_vol, 10, vol_z[i]),
                                                       FTimes(w_volshock, 10, volshock_z[i])),
                                                  FTimes(w_liq, 10, liq_z[i])), NRows(frame))),
             written |-> {"vol_z", "volshock_z", "liq_z", "stress_score"}]))))

\* the two .loc assignments in the other order
label_rows_swapped(score, stress_thr, extreme_thr) ==
  LET r0 == Build(LAMBDA i : "Normal", Len(score))
      r1 == Build(LAMBDA i : IF FGt(score[i], extreme_thr) THEN "Extreme" ELSE r0[i], Len(score))
  IN Build(LAMBDA i : IF FGt(score[i], stress_thr) THEN "Stress" ELSE r1[i], Len(score))

\* regime = "Normal"; rows > stress_thr become "Stress"; rows > extreme_thr
\* become "Extreme" (scoring.py 60-62 and app.py 167-169)
label_rows(score, stress_thr, extreme_thr) ==
  LET r0 == Build(LAMBDA i : "Normal", Len(score))
      r1 == Build(LAMBDA i : IF FGt(score[i], stress_thr) THEN "Stress" ELSE r0[i], Len(score))
  IN Build(LAMBDA i : IF FGt(score[i], extreme_thr) THEN "Extreme" ELSE r1[i], Len(score))

add_regime(frame, stress_col) ==
  SetCol(frame, "regime",
         label_rows(frame.cols[stress_col], Num((15 * Scale) \div 10), Num((25 * Scale) \div 10)))

(***************************************************************************)
(* src/analysis.py                                                         *)
(***************************************************************************)
\* len(s) < 50
MinObs == 50
\* extreme_thr = stress_thr + 1e-6: the smallest step of the grid
Eps == 1

STD == << "s", "t", "d" >>
PERCENTILE == << "p", "e", "r", "c", "e", "n", "t", "i", "l", "e" >>

\* the fallback taken for fewer than 30 observations instead of 50
thresholds_small_sample(n) == n < 30

small_sample(n) == n < MinObs

\* p in percent, k in tenths
compute_thresholds(stress_series, method, p_stress, p_extreme, k_stress, k_extreme) ==
  With(dropna(replace_inf(stress_series)), LAMBDA s :
    IF small_sample(Len(s))
    THEN With(IF Len(s) # 0 THEN mean(s) ELSE Num(0), LAMBDA mu :
           With(IF Len(s) # 0 THEN std(s) ELSE Num(Scale), LAMBDA sigma :
             [stress |-> FAdd(mu, FTimes(10, 10, sigma)),
              extreme |-> FAdd(mu, FTimes(20, 10, sigma))]))
    ELSE IF strip(lower(OrEmpty(method))) = STD
    THEN With(mean(s), LAMBDA mu :
           With(std(s), LAMBDA sigma :
             [stress |-> FAdd(mu, FTimes(k_stress, 10, sigma)),
              extreme |-> FAdd(mu, FTimes(k_extreme, 10, sigma))]))
    ELSE With(quantile(s, p_stress), LAMBDA stress_thr :
           With(quantile(s, p_extreme), LAMBDA extreme_thr :
             [stress |-> stress_thr,
              extreme |-> IF FLe(extreme_thr, stress_thr)
                          THEN FAdd(stress_thr, Num(Eps)) ELSE extreme_thr])))

\* sort_values(ascending=False): a comes before b; NaN goes last
Before(a, b) == IF isna(b) THEN ~isna(a) ELSE FGt(a, b)

\* positions sorted by descending key; equal keys keep their order
SortDesc(pos, key) ==
  LET n == Len(pos)
      k(i) == key[pos[i]]
      rank == Build(LAMBDA i : 1 + Cardinality({j \in 1..n :
                       \/ Before(k(j), k(i))
                       \/ (~Before(k(i), k(j)) /\ j < i)}), n)
  IN Build(LAMBDA r : pos[CHOOSE i \in 1..n : rank[i] = r], n)

\* DataFrame.head(n)
head(s, n) ==
  IF n >= 0 THEN SubSeq(s, 1, IF n < Len(s) THEN n ELSE Len(s))
  ELSE SubSeq(s, 1, IF Len(s) + n > 0 THEN Len(s) + n ELSE 0)

\* the rows that go on to the sort, without the dropna
rows_to_rank_all(frame, stress_col) == Positions(NRows(frame))

\* df[cols].dropna(subset=[stress_col])
rows_to_rank(frame, stress_col) ==
  Select(Positions(NRows(frame)), LAMBDA i : ~isna(frame.cols[stress_col][i]))

top_stress_events(frame, stress_col, n) ==
  LET cols == {stress_col, "Close"} \cup
              ({"fwd_ret_1d", "fwd_ret_5d", "fwd_ret_20d", "fwd_vol_20d", "regime"}
                 \cap DOMAIN frame.cols)
  IN With(head(SortDesc(rows_to_rank(frame, stress_col), frame.cols[stress_col]), n),
          LAMBDA order :
       With(TakeRows(frame, order, cols), LAMBDA tmp :
         [idx |-> Build(LAMBDA i : i - 1, Len(order)),
          cols |-> [c \in cols \cup {"date"} |->
                      IF c = "date" THEN tmp.idx ELSE tmp.cols[c]]]))

RECURSIVE Uniq(_)
Uniq(s) ==
  IF s = << >> THEN << >>
  ELSE LET u == Uniq(SubSeq(s, 1, Len(s) - 1))
       IN IF \E i \in 1..Len(u) : u[i] = s[Len(s)] THEN u ELSE Append(u, s[Len(s)])

Count(s, x) == Cardinality({i \in 1..Len(s) : s[i] = x})

\* num/den in tenths, truncated
tenths_floor(num, den) == num \div den

\* num/den to the nearest integer, halves to the even one (numpy's round)
round_half_even(num, den) ==
  LET q == num \div den
      r == num % den
  IN IF 2 * r < den THEN q
     ELSE IF 2 * r > den THEN q + 1
     ELSE IF q % 2 = 0 THEN q ELSE q + 1

\* value_counts(dropna=False), largest first; one record per row of the result,
\* pct = (count / total * 100).round(1)
regime_summary(frame, regime_col) ==
  LET col == frame.cols[regime_col]
      total == Len(col)
  IN With(Uniq(col), LAMBDA vals :
       With(SortDesc(Positions(Len(vals)),
                     [i \in 1..Len(vals) |-> Num(Count(col, vals[i]))]), LAMBDA order :
         Build(LAMBDA i :
                 [regime |-> vals[order[i]],
                  days |-> Count(col, vals[order[i]]),
                  pct |-> Num((round_half_even(Count(col, vals[order[i]]) * 1000, total)
                                 * Scale) \div 10)],
               Len(order))))

\* Series.shift(-h): the value h rows ahead, NaN past the end
shift_back(s, h) == Build(LAMBDA i : IF i + h <= Len(s) THEN s[i + h] ELSE NaN, Len(s))

\* Series.pct_change(): NaN in the first row (the price column has no NaN)
pct_change(s) ==
  Build(LAMBDA i : IF i = 1 THEN NaN ELSE FSub(FDiv(s[i], s[i - 1]), Num(Scale)), Len(s))

\* the window ending at row i, complete and without NaN, or << >>
Window(s, i, window) ==
  IF i >= window /\ \A j \in (i - window + 1)..i : ~isna(s[j])
  THEN SubSeq(s, i - window + 1, i) ELSE << >>

\* Series.rolling(window).std() and .mean(): NaN until the window is full
rolling_std(s, window) ==
  Build(LAMBDA i : IF Window(s, i, window) = << >> THEN NaN ELSE std(Window(s, i, window)), Len(s))

rolling_mean(s, window) ==
  Build(LAMBDA i : IF Window(s, i, window) = << >> THEN NaN ELSE mean(Window(s, i, window)), Len(s))

add_forward_metrics(frame, price_col) ==
  LET price == frame.cols[price_col]
      fwd(h) == Build(LAMBDA i : FSub(FDiv(shift_back(price, h)[i], price[i]), Num(Scale)), NRows(frame))
  IN With(pct_change(price), LAMBDA returns :
       SetCol(SetCol(SetCol(SetCol(SetCol(frame, "ret", returns),
         "fwd_ret_1d", fwd(1)), "fwd_ret_5d", fwd(5)), "fwd_ret_20d", fwd(20)),
         "fwd_vol_20d", shift_back(rolling_std(returns, 20), 20)))

(***************************************************************************)
(* src/features.py                                                         *)
(***************************************************************************)
add_returns(frame, price_col) == SetCol(frame, "ret", pct_change(frame.cols[price_col]))

add_rolling_volatility(frame, ret_col, window) ==
  SetCol(frame, "volatility", rolling_std(frame.cols[ret_col], window))

add_volume_shock(frame, vol_col, window) ==
  LET denom == rolling_mean(frame.cols[vol_col], window)
  IN SetCol(frame, "vol_shock", Build(LAMBDA i : FDiv(frame.cols[vol_col][i], denom[i]), NRows(frame)))

add_liquidity_proxy(frame, vol_col) ==
  With(Build(LAMBDA i : FSub(frame.cols["High"][i], frame.cols["Low"][i]), NRows(frame)),
       LAMBDA hl :
    With(Build(LAMBDA i : IF hl[i] = Num(0) THEN NaN ELSE hl[i], NRows(frame)), LAMBDA range :
      SetCol(SetCol(frame, "range", range),
             "liq_proxy",
             Build(LAMBDA i : FDiv(frame.cols[vol_col][i], range[i]), NRows(frame)))))

(***************************************************************************)
(* src/data.py                                                             *)
(***************************************************************************)
\* what yf.download returned: None, or a frame whose column labels are the
\* tuples of their levels: << field >>, or << field, ticker >> under a
\* MultiIndex
NoFrame == [none |-> TRUE]

\* c[0] for c in df.columns
first_level(c) == << c[1] >>

\* if isinstance(df.columns, pd.MultiIndex): df.columns = [c[0] for c in df.columns]
flatten(up) ==
  LET label(c) == IF up.multi THEN first_level(c) ELSE c
  IN [idx |-> up.idx,
      cols |-> [f \in {label(c)[1] : c \in DOMAIN up.cols} |->
                  up.cols[CHOOSE c \in DOMAIN up.cols : label(c)[1] = f]]]

\* every row kept, where the code drops those with a missing field
all_rows(frame) == Positions(NRows(frame))

\* the rows df.dropna() keeps: no field missing
complete_rows(frame) ==
  Select(Positions(NRows(frame)), LAMBDA i : \A c \in DOMAIN frame.cols : ~isna(frame.cols[c][i]))

\* up: the answer the upstream source gives if asked
fetch_ohlcv_yfinance(ticker, period, interval, up) ==
  With(strip(OrEmpty(ticker)), LAMBDA t :
    IF t = << >>
    THEN [raised |-> TRUE, type |-> "ValueError",
          msg |-> [text |-> "Ticker cannot be empty."], downloaded |-> FALSE]
    ELSE IF up.none \/ Len(up.idx) = 0 \/ DOMAIN up.cols = {}
    THEN [raised |-> TRUE, type |-> "ValueError",
          msg |-> [text |-> "No data returned for", ticker |-> t,
                   period |-> period, interval |-> interval],
          downloaded |-> TRUE]
    ELSE With(flatten(up), LAMBDA frame :
           [raised |-> FALSE,
            val |-> TakeRows(frame, complete_rows(frame), DOMAIN frame.cols),
            downloaded |-> TRUE]))

(***************************************************************************)
(* src/app.py, load_and_compute (lines 26-43)                              *)
(***************************************************************************)
\* the final drop taking a forward metric into its subset
core_and_forward == {"Close", "stress_score", "fwd_ret_1d"}

\* dropna(subset=["Close", "stress_score"])
core == {"Close", "stress_score"}

core_rows(t) ==
  Select(Positions(NRows(t)), LAMBDA i : \A c \in core : ~isna(t.cols[c][i]))

drop_core(frame) == With(frame, LAMBDA t : TakeRows(t, core_rows(t), DOMAIN t.cols))

\* lines 30-39, on the loader's table
annotate(frame) ==
  add_forward_metrics(
    add_regime(
      compute_stress_score(
        add_liquidity_proxy(
          add_volume_shock(
            add_rolling_volatility(add_returns(frame, "Close"), "ret", 20), "Volume", 30),
          "Volume"),
        4, 4, 2).val,
      "stress_score"),
    "Close")

\* the columns lines 30-33 look up, in the order they do
looked_up == << "Close", "Volume", "High", "Low" >>

\* a column looked up and absent: pandas raises KeyError on the first one
load_and_compute(ticker, period, interval, up) ==
  With(fetch_ohlcv_yfinance(ticker, period, interval, up), LAMBDA got :
    IF got.raised THEN got
    ELSE With(Select(looked_up, LAMBDA c : ~HasCol(got.val, c)), LAMBDA absent :
           IF absent # << >>
           THEN [raised |-> TRUE, type |-> "KeyError", msg |-> [text |-> absent[1]],
                 downloaded |-> TRUE]
           ELSE Ok(drop_core(annotate(got.val)))))

(***************************************************************************)
(* src/app.py, the Run handler's threshold policy (lines 148-169)          *)
(***************************************************************************)
MANUAL == "Manual"
AUTO_PCT == "Auto (Percentiles)"
\* "Auto (Mean+-Std)" stands for the radio label with the plus-minus sign
AUTO_STD == "Auto (Mean+-Std)"

\* the form's widgets: percentiles in percent, k and the manual cutoffs in
\* tenths; the widgets of the modes not chosen are None and are left out
decide_thresholds(stress_score, w) ==
  IF w.threshold_mode = AUTO_STD
  THEN compute_thresholds(stress_score, Str(STD), 85, 95, w.k_stress, w.k_extreme)
  ELSE IF w.threshold_mode = AUTO_PCT
  THEN compute_thresholds(stress_score, Str(PERCENTILE), w.p_stress, w.p_extreme, 10, 20)
  ELSE [stress |-> Num((w.stress_thr_manual * Scale) \div 10),
        extreme |-> Num((w.extreme_thr_manual * Scale) \div 10)]

apply_regimes(frame, thr) ==
  SetCol(frame, "regime", label_rows(frame.cols["stress_score"], thr.stress, thr.extreme))

(***************************************************************************)
(* Inputs                                                                  *)
(***************************************************************************)
\* longest series enumerated value by value
MaxLen == 2
\* most rows of a table of feature columns
MaxFeatRows == 1
\* most rows of one regime in a table of regimes
MaxPerRegime == 4
\* largest n of top_stress_events(n)
MaxN == 3

SeqsUpTo(V, n) == UNION {[1..k -> V] : k \in 0..n}

ScoreVals == {NaN, PosInf, NegInf, Num(0), Num((15 * Scale) \div 10),
              Num((25 * Scale) \div 10), Num(3 * Scale)}

\* a long series: k generated values, then the enumerated tail
PadKinds == {"flat", "ramp"}
PadValue(kind, i) == IF kind = "flat" THEN Num(0) ELSE Num(((i * 3) % 8) * (Scale \div 2))
PadLens == {MinObs - 3, MinObs - 1, MinObs}
Pad(kind, k, tail) ==
  Build(LAMBDA i : IF i <= k THEN PadValue(kind, i) ELSE tail[i - k], k + Len(tail))

TailVals == {NaN, PosInf, Num(3 * Scale)}

ScoreSeries ==
  SeqsUpTo(ScoreVals, MaxLen)
    \cup {Pad(kind, k, tail) : kind \in PadKinds, k \in PadLens, tail \in SeqsUpTo(TailVals, MaxLen)}

Dates(n) == Positions(n)

ScoreTable(scores) ==
  [idx |-> Dates(Len(scores)),
   cols |-> [c \in {"Close", "stress_score"} |->
               IF c = "Close" THEN Build(LAMBDA i : Num(Scale), Len(scores)) ELSE scores]]

FeatVals == {NaN, Num(0), Num(Scale)}

FeatureTables ==
  UNION {{[idx |-> Dates(n), cols |-> f] : f \in [cs -> [1..n -> FeatVals]]} :
           n \in 0..MaxFeatRows, cs \in SUBSET {"volatility", "vol_shock", "liq_proxy"}}

Rep(x, n) == Build(LAMBDA i : x, n)

RegimeTables ==
  {[idx |-> Dates(a + b + c),
    cols |-> [x \in {"regime"} |-> Rep("Stress", b) \o Rep("Normal", a) \o Rep("Extreme", c)]] :
     a \in 0..MaxPerRegime, b \in 0..MaxPerRegime, c \in 0..MaxPerRegime}

Methods == {Str(PERCENTILE), Str(STD), Str(<< " ", "S", "T", "D", "\n" >>),
            Str(<< "s", "t", "d", "x" >>), Str(<< >>), PyNone}
\* << p_stress, p_extreme, k_stress, k_extreme >>
ThresholdArgs == {<< 85, 95, 10, 20 >>, << 95, 85, 20, 10 >>, << 60, 60, 15, 15 >>}

Controls ==
  {[threshold_mode |-> MANUAL, stress_thr_manual |-> x[1], extreme_thr_manual |-> x[2]] :
     x \in {<< 15, 25 >>, << 25, 15 >>, << 0, 0 >>, << 30, 80 >>}}
  \cup {[threshold_mode |-> AUTO_PCT, p_stress |-> x[1], p_extreme |-> x[2]] :
          x \in {<< 85, 95 >>, << 95, 70 >>, << 60, 99 >>}}
  \cup {[threshold_mode |-> AUTO_STD, k_stress |-> x[1], k_extreme |-> x[2]] :
          x \in {<< 10, 20 >>, << 30, 10 >>, << 5, 50 >>}}

\* most rows of an upstream frame enumerated row by row
MaxRows == 3

Row(close, high, low, volume) ==
  [Open |-> Num(close * Scale), High |-> Num(high * Scale), Low |-> Num(low * Scale),
   Close |-> Num(close * Scale), AdjClose |-> Num(close * Scale),
   Volume |-> IF volume < 0 THEN NaN ELSE Num(volume * Scale)]

\* a bar, a bar with High = Low, a busier bar, a bar whose volume is missing
RowKinds == {Row(10, 11, 10, 1), Row(20, 20, 20, 2), Row(10, 12, 10, 4), Row(10, 11, 10, -1)}

Fields == {"Open", "High", "Low", "Close", "Adj Close", "Volume"}

FieldOf(row, f) == IF f = "Adj Close" THEN row.AdjClose ELSE row[f]

\* the frame yf.download answers with for these rows
Frame(rows, multi) ==
  [none |-> FALSE, multi |-> multi, idx |-> Dates(Len(rows)),
   cols |-> [c \in {IF multi THEN << f, "BTC-USD" >> ELSE << f >> : f \in Fields} |->
               Build(LAMBDA i : FieldOf(rows[i], c[1]), Len(rows))]]

\* a long history: prices and volumes that wander, bars with High = Low in
\* kind "gaps", and in the last bar a jump of the price, the volume or both
LongKinds == {"calm", "price", "volume", "both", "gaps"}
LongRow(kind, i, n) ==
  LET spikeP == kind \in {"price", "both"} /\ i = n
      spikeV == kind \in {"volume", "both"} /\ i = n
      close == IF spikeP THEN 40 ELSE 10 + (i % 3)
      flat == kind = "gaps" /\ i % 7 = 0
  IN Row(close, IF flat THEN close ELSE close + 1, close,
         IF spikeV THEN 12 ELSE 1 + ((i * i) % 4))
LongLens == {45, 80}
LongFrame(kind, n) == Frame(Build(LAMBDA i : LongRow(kind, i, n), n), FALSE)

Answers ==
  {NoFrame}
    \cup {Frame(rows, multi) : rows \in SeqsUpTo(RowKinds, MaxRows), multi \in BOOLEAN}
    \cup {LongFrame(kind, n) : kind \in LongKinds, n \in LongLens}

BTC == << "B", "T", "C", "-", "U", "S", "D" >>
Tickers == {PyNone, Str(<< >>), Str(<< " ", "\t" >>), Str(BTC), Str(<< " " >> \o BTC \o << "\n" >>)}

VARIABLES
  arg, call, ret,
  pc, request, upstream, fetched, df, returned,
  session_state, cache, view, stored_run

fnvars == << arg, call, ret >>
pipevars == << pc, request, upstream, fetched, df, returned >>
appvars == << session_state, cache, view, stored_run >>
vars == << arg, call, ret, pc, request, upstream, fetched, df, returned,
           session_state, cache, view, stored_run >>

NoTable == [idx |-> << >>, cols |-> << >>]

FnIdle == arg = NoTable /\ call = [fn |-> "none"] /\ ret = [raised |-> FALSE]

PipeIdle ==
  /\ pc = "idle"
  /\ request = [ticker |-> PyNone, period |-> "", interval |-> ""]
  /\ upstream = NoFrame
  /\ fetched = [raised |-> FALSE]
  /\ df = NoTable
  /\ returned = [raised |-> FALSE]

AppIdle ==
  /\ session_state = << >>
  /\ cache = << >>
  /\ view = [kind |-> "none"]
  /\ stored_run = [none |-> TRUE]

(***************************************************************************)
(* The functions applied to every input: arg is the caller's object, call  *)
(* the call made on it, ret what came back                                 *)
(***************************************************************************)
InitFn ==
  /\ arg \in {ScoreTable(s) : s \in ScoreSeries} \cup FeatureTables \cup RegimeTables
  /\ call = [fn |-> "none"]
  /\ ret = [raised |-> FALSE]
  /\ PipeIdle /\ AppIdle

NumericCols(t) == (DOMAIN t.cols) \ {"regime"}

CallZscore ==
  /\ call.fn = "none"
  /\ \E c \in NumericCols(arg) :
       /\ call' = [fn |-> "zscore", series |-> arg.cols[c]]
       /\ ret' = Ok(zscore(arg.cols[c]))
  /\ UNCHANGED << arg, pipevars, appvars >>

CallComputeStressScore ==
  /\ call.fn = "none"
  /\ ~HasCol(arg, "regime") /\ ~HasCol(arg, "stress_score")
  /\ call' = [fn |-> "compute_stress_score", df |-> arg]
  /\ ret' = compute_stress_score(arg, 4, 4, 2)
  /\ arg' = arg
  /\ UNCHANGED << pipevars, appvars >>

CallAddRegime ==
  /\ call.fn = "none"
  /\ HasCol(arg, "stress_score")
  /\ call' = [fn |-> "add_regime", df |-> arg]
  /\ ret' = Ok(add_regime(arg, "stress_score"))
  /\ UNCHANGED << arg, pipevars, appvars >>

CallComputeThresholds ==
  /\ call.fn = "none"
  /\ HasCol(arg, "stress_score")
  /\ \E method \in Methods, a \in ThresholdArgs :
       /\ call' = [fn |-> "compute_thresholds", series |-> arg.cols["stress_score"],
                   method |-> method, p_stress |-> a[1], p_extreme |-> a[2],
                   k_stress |-> a[3], k_extreme |-> a[4]]
       /\ ret' = Ok(compute_thresholds(arg.cols["stress_score"], method, a[1], a[2], a[3], a[4]))
  /\ UNCHANGED << arg, pipevars, appvars >>

\* app.py 148-169 on a table that load_and_compute returned
CallDecideAndApply ==
  /\ call.fn = "none"
  /\ HasCol(arg, "stress_score")
  /\ \E w \in Controls :
       LET thr == decide_thresholds(arg.cols["stress_score"], w)
       IN /\ call' = [fn |-> "decide_and_apply", df |-> arg, w |-> w]
          /\ ret' = Ok([df |-> apply_regimes(arg, thr), thr |-> thr])
  /\ UNCHANGED << arg, pipevars, appvars >>

CallTopStressEvents ==
  /\ call.fn = "none"
  /\ HasCol(arg, "stress_score")
  /\ \E n \in 0..MaxN :
       /\ call' = [fn |-> "top_stress_events", df |-> arg, n |-> n]
       /\ ret' = Ok(top_stress_events(arg, "stress_score", n))
  /\ UNCHANGED << arg, pipevars, appvars >>

CallRegimeSummary ==
  /\ call.fn = "none"
  /\ HasCol(arg, "regime")
  /\ call' = [fn |-> "regime_summary", df |-> arg]
  /\ ret' = Ok(regime_summary(arg, "regime"))
  /\ UNCHANGED << arg, pipevars, appvars >>

NextFn ==
  \/ CallZscore
  \/ CallComputeStressScore
  \/ CallAddRegime
  \/ CallComputeThresholds
  \/ CallDecideAndApply
  \/ CallTopStressEvents
  \/ CallRegimeSummary

SpecFn == InitFn /\ [][NextFn]_vars

(***************************************************************************)
(* load_and_compute, one stage at a time: df is the table in flight        *)
(***************************************************************************)
InitPipe ==
  /\ pc = "start"
  /\ request \in [ticker : Tickers, period : {"2y"}, interval : {"1d"}]
  /\ upstream \in Answers
  /\ fetched = [raised |-> FALSE]
  /\ df = NoTable
  /\ returned = [raised |-> FALSE]
  /\ FnIdle /\ AppIdle

Fetch ==
  /\ pc = "start"
  /\ LET got == fetch_ohlcv_yfinance(request.ticker, request.period, request.interval, upstream)
     IN /\ fetched' = got
        /\ IF got.raised
           THEN pc' = "raised" /\ returned' = got /\ UNCHANGED df
           ELSE pc' = "loaded" /\ df' = got.val /\ UNCHANGED returned
  /\ UNCHANGED << request, upstream, fnvars, appvars >>

Stage(from, to, out) ==
  /\ pc = from
  /\ pc' = to
  /\ df' = out
  /\ UNCHANGED << request, upstream, fetched, returned, fnvars, appvars >>

AddReturns == Stage("loaded", "returns", add_returns(df, "Close"))

AddRollingVolatility == Stage("returns", "volatility", add_rolling_volatility(df, "ret", 20))

AddVolumeShock == Stage("volatility", "vol_shock", add_volume_shock(df, "Volume", 30))

AddLiquidityProxy == Stage("vol_shock", "liquidity", add_liquidity_proxy(df, "Volume"))

ComputeStressScore ==
  /\ pc = "liquidity"
  /\ LET r == compute_stress_score(df, 4, 4, 2)
     IN IF r.raised
        THEN pc' = "raised" /\ returned' = r /\ UNCHANGED df
        ELSE pc' = "scored" /\ df' = r.val /\ UNCHANGED returned
  /\ UNCHANGED << request, upstream, fetched, fnvars, appvars >>

AddRegime == Stage("scored", "regime", add_regime(df, "stress_score"))

AddForwardMetrics == Stage("regime", "forward", add_forward_metrics(df, "Close"))

\* the final dropna and the return; df stays the table it was applied to
DropCore ==
  /\ pc = "forward"
  /\ pc' = "done"
  /\ returned' = Ok(drop_core(df))
  /\ UNCHANGED << request, upstream, fetched, df, fnvars, appvars >>

NextPipe ==
  \/ Fetch
  \/ AddReturns
  \/ AddRollingVolatility
  \/ AddVolumeShock
  \/ AddLiquidityProxy
  \/ ComputeStressScore
  \/ AddRegime
  \/ AddForwardMetrics
  \/ DropCore

SpecPipe == InitPipe /\ [][NextPipe]_vars

(***************************************************************************)
(* src/app.py, main: one run of the script per action.  session_state is   *)
(* st.session_state, cache the entries of @st.cache_data kept for          *)
(* load_and_compute, view what the run put on the page.  stored_run        *)
(* records the inputs and the computed table of the last Run that reached  *)
(* the "Store" lines.                                                      *)
(***************************************************************************)
ETH == << "E", "T", "H", "-", "U", "S", "D" >>
AppTickers == {Str(<< " " >>), Str(BTC), Str(ETH)}

\* the frame without one of its columns
Without(up, f) ==
  [up EXCEPT !.cols = [c \in (DOMAIN up.cols) \ {<< f >>} |-> up.cols[c]]]

\* no answer; three bars; one bar with a missing volume (no row is left);
\* a long history; three bars without their Volume column
AppAnswers ==
  {NoFrame,
   Frame(<< Row(10, 11, 10, 1), Row(20, 20, 20, 2), Row(10, 12, 10, 4) >>, TRUE),
   Frame(<< Row(10, 11, 10, -1) >>, FALSE),
   LongFrame("both", 80),
   Without(Frame(<< Row(10, 11, 10, 1), Row(20, 20, 20, 2), Row(10, 12, 10, 4) >>, FALSE), "Volume")}

\* the settings of the form submitted
AppControls ==
  {w \in Controls :
     \/ w.threshold_mode = MANUAL /\ w.stress_thr_manual \in {15, 25}
     \/ w.threshold_mode = AUTO_PCT /\ w.p_stress \in {85, 95}
     \/ w.threshold_mode = AUTO_STD /\ w.k_stress = 30}

\* load_and_compute(ticker, "2y", "1d") for each ticker typed and each answer
\* of the data source, evaluated once
LoadOutcomes ==
  {[ticker |-> t, outcome |-> load_and_compute(t, "2y", "1d", a)] :
     t \in AppTickers, a \in AppAnswers}

\* load_and_compute behind @st.cache_data: a kept entry answers without a call
cached_load_and_compute(entries, key, computed) ==
  IF key \in DOMAIN entries THEN Ok(entries[key]) ELSE computed

\* the store that leaves the two thresholds of the run before
store_keeping_thresholds(state, table, ticker, threshold_mode, thr) ==
  [k \in {"df", "ticker", "threshold_mode", "stress_thr", "extreme_thr"} |->
     CASE k = "df" -> table
       [] k = "ticker" -> ticker
       [] k = "threshold_mode" -> threshold_mode
       [] k = "stress_thr" -> IF k \in DOMAIN state THEN state[k] ELSE thr.stress
       [] k = "extreme_thr" -> IF k \in DOMAIN state THEN state[k] ELSE thr.extreme]

\* lines 172-176
store(state, table, ticker, threshold_mode, thr) ==
  [k \in (DOMAIN state) \cup {"df", "ticker", "threshold_mode", "stress_thr", "extreme_thr"} |->
     CASE k = "df" -> table
       [] k = "ticker" -> ticker
       [] k = "threshold_mode" -> threshold_mode
       [] k = "stress_thr" -> thr.stress
       [] k = "extreme_thr" -> thr.extreme
       [] OTHER -> state[k]]

\* lines 185-272: what is shown for the stored table
render(state) ==
  IF NRows(state["df"]) = 0
  THEN [kind |-> "warning"]
  ELSE [kind |-> "dashboard",
        latest |-> [Close |-> state["df"].cols["Close"][NRows(state["df"])],
                    stress_score |-> state["df"].cols["stress_score"][NRows(state["df"])],
                    regime |-> state["df"].cols["regime"][NRows(state["df"])]],
        rows |-> NRows(state["df"]),
        threshold_mode |-> state["threshold_mode"],
        stress_thr |-> state["stress_thr"],
        extreme_thr |-> state["extreme_thr"]]

InitApp ==
  /\ session_state = << >>
  /\ cache = << >>
  /\ view = [kind |-> "none"]
  /\ stored_run = [none |-> TRUE]
  /\ FnIdle /\ PipeIdle

\* the form submitted with Run
Run ==
  \E o \in LoadOutcomes, w \in AppControls :
    LET ticker == o.ticker
        key == [ticker |-> ticker, period |-> "2y", interval |-> "1d"]
        got == cached_load_and_compute(cache, key, o.outcome)
        thr == decide_thresholds(got.val.cols["stress_score"], w)
        table == apply_regimes(got.val, thr)
    IN IF got.raised
       THEN /\ view' = [kind |-> "error", e |-> [type |-> got.type, msg |-> got.msg]]
            /\ UNCHANGED << session_state, cache, stored_run, fnvars, pipevars >>
       ELSE /\ cache' = [k \in (DOMAIN cache) \cup {key} |-> IF k = key THEN got.val ELSE cache[k]]
            /\ session_state' = store(session_state, table, ticker, w.threshold_mode, thr)
            /\ stored_run' = [none |-> FALSE, ticker |-> ticker, w |-> w, computed |-> got.val]
            /\ view' = render(session_state')
            /\ UNCHANGED << fnvars, pipevars >>

\* a run of the script without Run pressed (any other widget touched)
Rerun ==
  /\ IF "df" \notin DOMAIN session_state
     THEN view' = [kind |-> "info"]
     ELSE view' = render(session_state)
  /\ UNCHANGED << session_state, cache, stored_run, fnvars, pipevars >>

\* ttl=3600: an entry of the cache runs out
Expire ==
  \E key \in DOMAIN cache :
    /\ cache' = [k \in (DOMAIN cache) \ {key} |-> cache[k]]
    /\ UNCHANGED << session_state, view, stored_run, fnvars, pipevars >>

Next ==
  \/ Run
  \/ Rerun
  \/ Expire

Init == InitApp

Spec == Init /\ [][Next]_vars

(***************************************************************************)
(* Properties of the functions                                             *)
(***************************************************************************)
\* the observations left after dropping missing and infinite values
Usable(series) == Select(series, IsNum)

Min(a, b) == IF a < b THEN a ELSE b

\* C1: for every series, method and parameters the thresholds returned by
\* compute_thresholds satisfy extreme_thr >= stress_thr + 1e-6.
C1_ExtremeAboveStress ==
  call.fn = "compute_thresholds" =>
    /\ IsNum(ret.val.stress) /\ IsNum(ret.val.extreme)
    /\ ret.val.extreme.v >= ret.val.stress.v + Eps

\* C2: with fewer than 50 usable observations compute_thresholds returns
\* (mean + 1.0*std, mean + 2.0*std) of them whatever the method and the
\* parameters, and (1.0, 2.0) when none is left.
C2_SmallSampleFallback ==
  call.fn = "compute_thresholds" /\ Len(Usable(call.series)) < MinObs =>
    LET u == Usable(call.series)
    IN ret.val = IF u = << >>
                 THEN [stress |-> Num(Scale), extreme |-> Num(2 * Scale)]
                 ELSE [stress |-> FAdd(mean(u), std(u)),
                       extreme |-> FAdd(mean(u), FAdd(std(u), std(u)))]

C2_Witness ==
  /\ call.fn = "compute_thresholds"
  /\ Len(Usable(call.series)) = MinObs - 1
  /\ call.method = Str(STD)
  /\ call.k_stress = 20 /\ call.k_extreme = 10
  /\ IsNum(ret.val.stress)
  /\ ret.val.extreme.v > ret.val.stress.v

\* C3: after regime assignment, by add_regime (1.5 / 2.5) and by the Run
\* handler (its active thresholds), a row is Extreme iff score > extreme_thr,
\* Stress iff stress_thr < score <= extreme_thr, Normal otherwise; so a row
\* with a higher score than an Extreme row is Extreme.
C3_RegimeByThresholds ==
  call.fn \in {"add_regime", "decide_and_apply"} =>
    LET out == IF call.fn = "add_regime" THEN ret.val ELSE ret.val.df
        stress_thr == IF call.fn = "add_regime" THEN Num((15 * Scale) \div 10) ELSE ret.val.thr.stress
        extreme_thr == IF call.fn = "add_regime" THEN Num((25 * Scale) \div 10) ELSE ret.val.thr.extreme
        score == out.cols["stress_score"]
        regime == out.cols["regime"]
        rows == 1..NRows(out)
    IN /\ Len(regime) = Len(score)
       /\ \A i \in rows :
            /\ regime[i] \in {"Normal", "Stress", "Extreme"}
            /\ regime[i] = "Extreme" <=> FGt(score[i], extreme_thr)
            /\ regime[i] = "Stress" <=> (FGt(score[i], stress_thr) /\ FLe(score[i], extreme_thr))
       /\ \A i, j \in rows :
            regime[i] = "Extreme" /\ FGt(score[j], score[i]) => regime[j] = "Extreme"

C3_Witness ==
  /\ call.fn = "decide_and_apply"
  /\ FGt(ret.val.thr.stress, ret.val.thr.extreme)
  /\ \E i, j \in 1..NRows(ret.val.df) :
       /\ ret.val.df.cols["regime"][i] = "Extreme"
       /\ FLe(ret.val.df.cols["stress_score"][i], ret.val.thr.stress)
       /\ ret.val.df.cols["regime"][j] = "Normal"

Lacking(t) == {c \in {"volatility", "vol_shock", "liq_proxy"} : ~HasCol(t, c)}

SeqRange(s) == {s[i] : i \in 1..Len(s)}

FailsNamingAbsent(type) ==
  call.fn = "compute_stress_score" /\ Lacking(call.df) # {} =>
    /\ ret.raised
    /\ ret.type = type
    /\ SeqRange(ret.msg.list) = Lacking(call.df)
    /\ Len(ret.msg.list) = Cardinality(Lacking(call.df))
    /\ ret.written = {}
    /\ arg = call.df

\* C4 as stated: compute_stress_score on a table lacking a needed column fails
\* with MissingColumnError naming exactly the absent columns, before any
\* column is computed and with the caller's table unchanged.
C4_AsStated == FailsNamingAbsent("MissingColumnError")

\* C4 amended: the same, the failure being a ValueError.
C4_FailsWithValueError == FailsNamingAbsent("ValueError")

C4_Witness ==
  /\ call.fn = "compute_stress_score"
  /\ Cardinality(Lacking(call.df)) = 2
  /\ NRows(call.df) > 0
  /\ ret.raised

Degenerate(series) ==
  \A i, j \in 1..Len(series) : IsNum(series[i]) /\ IsNum(series[j]) => series[i] = series[j]

C8_TopStressEvents ==
  call.fn = "top_stress_events" =>
    LET src == call.df.cols["stress_score"]
        out == ret.val
        got == out.cols["stress_score"]
        date == out.cols["date"]
        nonnull == {i \in 1..Len(src) : ~isna(src[i])}
        k == Len(out.idx)
    IN /\ k = Min(call.n, Cardinality(nonnull))
       /\ Len(got) = k /\ Len(date) = k
       /\ Cardinality(SeqRange(date)) = k
       /\ \A i \in 1..k : date[i] \in nonnull /\ got[i] = src[date[i]]
       /\ \A i, j \in 1..k : i < j => ~FGt(got[j], got[i])
       /\ \A i \in 1..k : \A r \in nonnull \ SeqRange(date) : ~FGt(src[r], got[i])

C8_Witness ==
  /\ call.fn = "top_stress_events"
  /\ call.n = 2
  /\ Cardinality({i \in 1..NRows(call.df) : ~isna(call.df.cols["stress_score"][i])}) > 2
  /\ \E i \in 1..NRows(call.df) : isna(call.df.cols["stress_score"][i])
  /\ ret.val.cols["stress_score"][1] = PosInf
  /\ IsNum(ret.val.cols["stress_score"][2])

\* C9: on a non-empty table with regimes in {Normal, Stress, Extreme},
\* regime_summary has one row per regime present, its day counts sum to the
\* number of rows, and its rounded percentages sum to 100 within 0.1.
C9_RegimeSummary ==
  call.fn = "regime_summary" /\ NRows(call.df) > 0 =>
    LET col == call.df.cols["regime"]
        res == ret.val
        days == SumSeq(Build(LAMBDA i : res[i].days, Len(res)))
        pct == SumSeq(Build(LAMBDA i : res[i].pct.v, Len(res)))
    IN /\ {res[i].regime : i \in 1..Len(res)} = SeqRange(col)
       /\ Len(res) = Cardinality(SeqRange(col))
       /\ \A i \in 1..Len(res) : res[i].days = Count(col, res[i].regime) /\ IsNum(res[i].pct)
       /\ days = Len(col)
       /\ Abs(pct - 100 * Scale) <= Scale \div 10

C9_Witness ==
  /\ call.fn = "regime_summary"
  /\ Len(ret.val) = 3
  /\ NRows(call.df) = 7
  /\ SumSeq(Build(LAMBDA i : ret.val[i].pct.v, Len(ret.val))) = 100 * Scale

(***************************************************************************)
(* Properties of load_and_compute                                          *)
(***************************************************************************)
Blank(ticker) == ticker.none \/ \A i \in 1..Len(ticker.s) : ticker.s[i] \in Whitespace

NullOrEmpty(up) == up.none \/ Len(up.idx) = 0

NoFieldMissing(t) ==
  \A c \in DOMAIN t.cols : \A i \in 1..NRows(t) : ~isna(t.cols[c][i])

LoaderContract(invalid_input, no_data) ==
  pc # "start" =>
    /\ Blank(request.ticker) =>
         fetched.raised /\ fetched.type = invalid_input /\ ~fetched.downloaded
    /\ ~Blank(request.ticker) /\ NullOrEmpty(upstream) =>
         fetched.raised /\ fetched.type = no_data
    /\ ~Blank(request.ticker) /\ ~NullOrEmpty(upstream) =>
         /\ ~fetched.raised
         /\ NoFieldMissing(fetched.val)
         /\ \A c \in DOMAIN fetched.val.cols : Len(fetched.val.cols[c]) = NRows(fetched.val)

Kept(t) ==
  Select(Positions(NRows(t)),
         LAMBDA i : ~isna(t.cols["Close"][i]) /\ ~isna(t.cols["stress_score"][i]))

\* C7: load_and_compute returns exactly the rows of the loader's table whose
\* Close and stress_score are both non-null, in the loader's order: no stage
\* removes or reorders a row, and no row is dropped for a missing forward
\* metric or any other column.
C7_OnlyCoreRowsDropped ==
  /\ pc \notin {"idle", "start", "raised"} =>
       /\ df.idx = fetched.val.idx
       /\ \A c \in DOMAIN fetched.val.cols : df.cols[c] = fetched.val.cols[c]
  /\ pc = "done" =>
       /\ ~returned.raised
       /\ returned.val.idx = Build(LAMBDA k : fetched.val.idx[Kept(df)[k]], Len(Kept(df)))
       /\ DOMAIN returned.val.cols = DOMAIN df.cols
       /\ \A c \in DOMAIN df.cols :
            returned.val.cols[c] = Build(LAMBDA k : df.cols[c][Kept(df)[k]], Len(Kept(df)))

C7_Witness ==
  /\ pc = "done"
  /\ NRows(df) > MinObs
  /\ \E i, j, k \in 1..NRows(df) :
       /\ i < j /\ j < k
       /\ ~isna(df.cols["stress_score"][i])
       /\ isna(df.cols["stress_score"][j])
       /\ ~isna(df.cols["stress_score"][k])
  /\ NRows(returned.val) > 0
  /\ isna(returned.val.cols["fwd_ret_1d"][NRows(returned.val)])
  /\ isna(returned.val.cols["fwd_vol_20d"][NRows(returned.val)])

(***************************************************************************)
(* Properties of the session                                               *)
(***************************************************************************)
Stored == {"df", "ticker", "threshold_mode", "stress_thr", "extreme_thr"}

LabelBy(score, stress_thr, extreme_thr) ==
  IF FGt(score, extreme_thr) THEN "Extreme"
  ELSE IF FGt(score, stress_thr) THEN "Stress" ELSE "Normal"

FromStoredRun ==
  IF "df" \notin DOMAIN session_state
  THEN session_state = << >> /\ stored_run.none
  ELSE /\ Stored \subseteq DOMAIN session_state
       /\ ~stored_run.none
       /\ session_state["ticker"] = stored_run.ticker
       /\ session_state["threshold_mode"] = stored_run.w.threshold_mode
       /\ LET thr == decide_thresholds(stored_run.computed.cols["stress_score"], stored_run.w)
          IN /\ session_state["stress_thr"] = thr.stress
             /\ session_state["extreme_thr"] = thr.extreme
       /\ session_state["df"].idx = stored_run.computed.idx
       /\ DOMAIN session_state["df"].cols = DOMAIN stored_run.computed.cols
       /\ \A c \in (DOMAIN stored_run.computed.cols) \ {"regime"} :
            session_state["df"].cols[c] = stored_run.computed.cols[c]
       /\ \A i \in 1..NRows(session_state["df"]) :
            session_state["df"].cols["regime"][i] =
              LabelBy(session_state["df"].cols["stress_score"][i],
                      session_state["stress_thr"], session_state["extreme_thr"])

\* C10: across any sequence of Run actions the stored table, ticker,
\* threshold mode, stress_thr and extreme_thr all come from the same most
\* recent successful Run; a failed Run changes none of the five; and in
\* every state with a stored table each row's regime is the label its score
\* gets from the stored stress_thr and extreme_thr.
C10_StoredFromOneRun ==
  /\ []FromStoredRun
  /\ [][view'.kind = "error" => session_state' = session_state]_vars

C10_Witness ==
  /\ view.kind = "error"
  /\ view.e.type = "KeyError"
  /\ "df" \in DOMAIN session_state
  /\ session_state["threshold_mode"] = AUTO_PCT
  /\ session_state["ticker"] = Str(ETH)
  /\ \E i \in 1..NRows(session_state["df"]) : session_state["df"].cols["regime"][i] = "Extreme"
  /\ \E i \in 1..NRows(session_state["df"]) : session_state["df"].cols["regime"][i] = "Normal"

=============================================================================
